---- MODULE Spec2Model ----
(***************************************************************************)
(* A model of the Sesame voice relay: the backend link (SesameWebSocket,   *)
(* src/wrapper.py), the per-session proxy (VoiceChatProxy, src/app.py) and *)
(* the token manager (TokenManager, src/wrapper.py).                       *)
(*                                                                         *)
(* Spec       one session: the proxy, its backend link, the transport      *)
(*            receive thread, the audio thread and one browser channel;    *)
(*            the backend sends any message at any time.                   *)
(* SpecQueue  the same session with a backend that completes the           *)
(*            handshake and then streams audio frames.                     *)
(* SpecToken  one TokenManager and the calls made to get_valid_token.      *)
(***************************************************************************)
EXTENDS Integers, Sequences, FiniteSets, TLC

(***************************************************************************)
(* Bounds of the model.  The code's inbound queue holds 1000 frames        *)
(* (queue.Queue(maxsize=1000), src/wrapper.py:517); the model is           *)
(* parametric in the capacity and is checked for small ones.               *)
(***************************************************************************)
Capacity == 2
MaxId == 2
MaxMsgs == 4
MaxClientAudio == 1
MaxIssued == 2
JitterWindow == 6      \* gaps kept in network_jitter (the code keeps 20)
MaxSamples == 3        \* samples of a payload given to enhance_audio_quality
MaxThreads == 2        \* request threads
MaxSessions == 2       \* create_session calls
MaxCommands == 2       \* command messages of the browser channel
MaxIdleMs == 150       \* how long the forwarding loop is followed without a chunk

(* Program constants. *)
DefaultSampleRate == 24000
ClientSampleRate == 16000

Nil == 0
NoRate == 0
Ids == 1..MaxId
MaxFrames == Capacity + 2
(* The rates a call_connect_response declares, besides declaring none. *)
DeclaredRates == {ClientSampleRate}

VARIABLES
  (* SesameWebSocket *)
  ws_state,            \* transport: "none", "connecting", "open", "error", "closed"
  session_id,          \* Nil or an id
  call_id,             \* Nil or an id
  server_sample_rate,
  connected_event,     \* threading.Event
  audio_buffer,        \* queue.Queue(maxsize=Capacity) of frames
  first_audio_received,
  recv_pc,             \* position of the receive thread inside _handle_audio
  cur_frame,           \* the frame _handle_audio is inserting
  (* VoiceChatProxy *)
  p_pc,                \* start: "idle", "waiting" (in ws.connect), "timedout",
                       \* "connfailed", "started", "failed"
  running,
  status,
  connection_status,
  p_sample_rate,
  client_connected,
  audio_thread,        \* "none", "running", "exited"
  registered,          \* the proxy is in active_sessions
  (* browser channel *)
  b_pc,                \* "none", "attached", "closed"
  (* observation *)
  sent,                \* the messages the last sending step delivered to the backend
  sent_n,              \* per kind, the messages delivered to the backend so far
  browser_out,         \* the status messages the last step delivered to the browser
  nrecv,               \* backend messages handled
  nclient,             \* client audio messages handled
  nframes,             \* inbound frames decoded so far
  consumed,            \* frames taken by get_next_audio_chunk, in order
  dropped,             \* frames that were decoded and never inserted
  evicted,             \* frames removed by the producer to make room
  last_msg,            \* the last event handled by the receive thread
  init_sids,           \* session ids of the initialize messages handled
  connect_cb,          \* invocations of on_connect_callback
  disconnect_cb,       \* invocations of on_disconnect_callback
  (* TokenManager *)
  tokens,              \* self.tokens, the cached token record
  token_store,         \* the token file: a token record
  tm_pc,               \* get_valid_token: "idle", "lookup", "refresh", "mint", "returned"
  tm_force,            \* the force_new argument of the call
  tm_result,           \* what the call returned or raised
  tm_calls,            \* the collaborator calls of this call, with their outcomes
  tm_before,           \* self.tokens when the call began
  tm_response,         \* the last record the Auth Service issued to this call
  issued,              \* token records the Auth Service has issued so far
  (* process_ai_audio: the locals of the forwarding loop *)
  buffer_size_ms,      \* the jitter-buffer target
  network_jitter,      \* the last inter-arrival gaps, in ms, oldest first
  chunk_seen,          \* last_chunk_time > 0
  fw_buffer,           \* the loop's audio_buffer: the durations, in ms, of its chunks
  since_send,          \* now - last_send_time at the last chunk, in ms
  flushed,             \* the chunks the last iteration sent on
  waited,              \* ms spent in timed-out gets since the last chunk
  (* enhance_audio_quality: its last call *)
  enh_called,          \* it has been called
  enh_payload,         \* its argument: 16-bit samples and a trailing odd byte or none
  enh_numpy,           \* numpy could be imported
  enh_gain,            \* the gain it applied, or NoGain
  enh_out,             \* what it returned
  (* the session registry and the request threads that use it *)
  session_lock,        \* Nil or the thread that holds it
  active_sessions,     \* the dict: a function from session ids to proxies
  proxy_session_id,    \* per proxy created, its own session_id
  proxy_state,         \* per proxy: "starting", "started", "failed", "stopping", "stopped"
  rq_pc,               \* per thread: "idle", "create_start", "end_stop"
  rq_sid,              \* per thread: the session id of its call
  rq_ret,              \* per thread: what its last call returned
  (* ws_chat: the command messages it has handled *)
  ncmd,                \* how many
  last_cmd,            \* the command of the last one, or "none"
  (* end_session on a request thread *)
  stop_pc,             \* its place in stop(): "idle", "clear", "check", "disconnect",
                       \* "tail", "done"
  (* a second ws_chat for the same session id *)
  b2_pc                \* "none", "attached", "closed"

linkVars == <<ws_state, session_id, call_id, server_sample_rate, connected_event,
              audio_buffer, first_audio_received, recv_pc, cur_frame>>
proxyVars == <<p_pc, running, status, connection_status, p_sample_rate,
               client_connected, audio_thread, registered>>
sentVars == <<sent, sent_n>>
histVars == <<nrecv, nclient, nframes, consumed, dropped, evicted, last_msg,
              init_sids, connect_cb, disconnect_cb>>
sessionVars == <<linkVars, proxyVars, b_pc, sentVars, browser_out, histVars>>
tokenVars == <<tokens, token_store, tm_pc, tm_force, tm_result, tm_calls, tm_before,
               tm_response, issued>>
forwarderVars == <<buffer_size_ms, network_jitter, chunk_seen, fw_buffer, since_send,
                   flushed, waited>>
(* What an action of the session, of the token manager, of the forwarding  *)
(* loop leaves alone.                                                      *)
enhanceVars == <<enh_called, enh_payload, enh_numpy, enh_gain, enh_out>>
registryVars == <<session_lock, active_sessions, proxy_session_id, proxy_state,
                  rq_pc, rq_sid, rq_ret>>
commandVars == <<ncmd, last_cmd>>
stopVars == <<stop_pc>>
channelVars == <<b2_pc>>
offSession == <<tokenVars, forwarderVars, enhanceVars, registryVars, commandVars,
                stopVars, channelVars>>
offToken == <<sessionVars, forwarderVars, enhanceVars, registryVars, commandVars,
                stopVars, channelVars>>
offForwarder == <<sessionVars, tokenVars, enhanceVars, registryVars, commandVars,
                stopVars, channelVars>>
offEnhance == <<sessionVars, tokenVars, forwarderVars, registryVars, commandVars,
                stopVars, channelVars>>
offRegistry == <<sessionVars, tokenVars, forwarderVars, enhanceVars, commandVars,
                stopVars, channelVars>>
offCommand == <<tokenVars, forwarderVars, enhanceVars, registryVars,
                stopVars, channelVars>>
vars == <<sessionVars, tokenVars, forwarderVars, enhanceVars, registryVars, commandVars,
                stopVars, channelVars>>

(***************************************************************************)
(* Messages.                                                               *)
(***************************************************************************)
BMsg(t, s, c, r, d) ==
  [type |-> t, session_id |-> s, call_id |-> c, sample_rate |-> r, data |-> d]

NoMsg == BMsg("none", Nil, Nil, NoRate, "none")
CloseEvent == BMsg("close", Nil, Nil, NoRate, "none")
ErrorEvent == BMsg("error", Nil, Nil, NoRate, "none")
AudioFrame == BMsg("audio", Nil, Nil, NoRate, "valid")

(* What the backend may put on the transport. *)
BackendMsgs ==
  {BMsg("initialize", s, Nil, NoRate, "none") : s \in Ids}
  \cup {BMsg("call_connect_response", s, c, r, "none") :
          s \in Ids, c \in Ids, r \in DeclaredRates \cup {NoRate}}
  \cup {BMsg("audio", Nil, Nil, NoRate, d) : d \in {"valid", "empty", "invalid"}}
  \cup {BMsg(t, Nil, Nil, NoRate, "none") :
          t \in {"ping_response", "call_disconnect_response", "unknown", "nonjson"}}

(* What a backend that follows the handshake sends next. *)
InOrderMsgs ==
  IF session_id = Nil
  THEN {BMsg("initialize", s, Nil, NoRate, "none") : s \in Ids}
  ELSE IF call_id = Nil
  THEN {BMsg("call_connect_response", session_id, c, r, "none") :
          c \in Ids, r \in DeclaredRates \cup {NoRate}}
  ELSE {AudioFrame}

OutMsg(t, s, c, d) == [type |-> t, session_id |-> s, call_id |-> c, data |-> d]

(* The kind of an outbound message: its type, audio split by payload. *)
Kind(m) == IF m.type = "audio" THEN m.data ELSE m.type
Kinds == {"client_location_state", "call_connect", "priming", "client",
          "call_disconnect"}

RECURSIVE CountKind(_, _)
CountKind(batch, k) ==
  IF batch = <<>> THEN 0
  ELSE (IF Kind(Head(batch)) = k THEN 1 ELSE 0) + CountKind(Tail(batch), k)

(***************************************************************************)
(* SesameWebSocket: pure parts.  A send function maps the batch delivered  *)
(* so far in the step to the batch after the call; w, s and c are the      *)
(* transport state, session_id and call_id at the call.                    *)
(***************************************************************************)
is_connected == session_id # Nil /\ call_id # Nil

(* _send_data / _send_message: ws.send raises on a transport that is not   *)
(* open; the error is logged and the message is lost.                      *)
SendData(batch, w, m) == IF w = "open" THEN Append(batch, m) ELSE batch

(* A _send_audio that does not look at the ids. *)
SendAudio_Unchecked(batch, w, s, c, d) == SendData(batch, w, OutMsg("audio", s, c, d))

(* _send_audio *)
SendAudio(batch, w, s, c, d) ==
  IF s = Nil \/ c = Nil THEN batch ELSE SendData(batch, w, OutMsg("audio", s, c, d))

(* _send_client_location_state *)
SendClientLocationState(batch, w, s) ==
  IF s = Nil THEN batch
  ELSE SendData(batch, w, OutMsg("client_location_state", s, Nil, "none"))

(* _send_call_connect *)
SendCallConnect(batch, w, s) ==
  IF s = Nil THEN batch
  ELSE SendData(batch, w, OutMsg("call_connect", s, Nil, "none"))

(* disconnect() *)
Disconnect(batch, w, s, c) ==
  IF s = Nil \/ c = Nil THEN batch
  ELSE SendData(batch, w, OutMsg("call_disconnect", s, c, "user_request"))

(* what disconnect() returns *)
DisconnectReturns(s, c) == ~(s = Nil \/ c = Nil)

(* send_audio_data *)
SendAudioData(batch, w, s, c) ==
  IF s = Nil \/ c = Nil THEN batch ELSE SendAudio(batch, w, s, c, "client")

(* what send_audio_data returns *)
SendAudioDataReturns(s, c) == ~(s = Nil \/ c = Nil)

(* The end of _handle_audio: on the first frame, two priming chunks. *)
Prime(batch, first, w, s, c) ==
  IF first THEN batch
  ELSE SendAudio(SendAudio(batch, w, s, c, "priming"), w, s, c, "priming")

(* queue.put_nowait succeeds *)
PutNowaitOk(q) == Len(q) < Capacity

(* A get that takes the frame queued last. *)
GetNowait_Newest(q) ==
  [item |-> q[Len(q)], rest |-> SubSeq(q, 1, Len(q) - 1)]

(* audio_buffer.get_nowait() on a queue that is not empty: FIFO *)
GetNowait(q) == [item |-> Head(q), rest |-> Tail(q)]

(* The sample rate the response declares is not taken over. *)
DeclaredSampleRate_Ignored(m, current) == current

(* content.get('sample_rate', self.server_sample_rate) *)
DeclaredSampleRate(m, current) ==
  IF m.sample_rate = NoRate THEN current ELSE m.sample_rate

(* The step delivered `batch` to the backend. *)
Deliver(batch) ==
  /\ sent' = batch
  /\ sent_n' = [k \in Kinds |-> sent_n[k] + CountKind(batch, k)]

(***************************************************************************)
(* VoiceChatProxy: pure parts.                                             *)
(***************************************************************************)
StatusMsg(st, cs) == [status |-> st, connectionStatus |-> cs]

(* send_status_to_browser, with client_connected = cc *)
SendStatus(batch, cc, st, cs) ==
  IF cc THEN Append(batch, StatusMsg(st, cs)) ELSE batch

InitSession ==
  /\ ws_state = "none"
  /\ session_id = Nil
  /\ call_id = Nil
  /\ server_sample_rate = DefaultSampleRate
  /\ connected_event = FALSE
  /\ audio_buffer = <<>>
  /\ first_audio_received = FALSE
  /\ recv_pc = "idle"
  /\ cur_frame = 0
  /\ p_pc = "idle"
  /\ running = FALSE
  /\ status = "Initialized"
  /\ connection_status = "Disconnected"
  /\ p_sample_rate = DefaultSampleRate
  /\ client_connected = FALSE
  /\ audio_thread = "none"
  /\ registered = FALSE
  /\ b_pc = "none"
  /\ sent = <<>>
  /\ sent_n = [k \in Kinds |-> 0]
  /\ browser_out = <<>>
  /\ nrecv = 0
  /\ nclient = 0
  /\ nframes = 0
  /\ consumed = <<>>
  /\ dropped = {}
  /\ evicted = {}
  /\ last_msg = NoMsg
  /\ init_sids = {}
  /\ connect_cb = 0
  /\ disconnect_cb = 0

(* process_ai_audio: its constants, and its locals before the loop. *)
InitialBufferMs == 120
MinBufferMs == 80
MaxBufferMs == 300
HighJitterMs == 50
LowJitterMs == 20
ShrinkAboveMs == 100
GrowStepMs == 20
ShrinkStepMs == 10
MinJitterSamples == 5
FlushAfterMs == 200
GetTimeoutMs == 50
NeverSent == -1        \* last_send_time is still 0

InitForwarder ==
  /\ buffer_size_ms = InitialBufferMs
  /\ network_jitter = <<>>
  /\ chunk_seen = FALSE
  /\ fw_buffer = <<>>
  /\ since_send = NeverSent
  /\ flushed = <<>>
  /\ waited = 0

(* enhance_audio_quality: payloads and results.  A payload is its 16-bit  *)
(* samples and the number of bytes (0 or 1) left after the last whole      *)
(* sample; a result is its format, its sample values as num[i] / den and   *)
(* its length in bytes.                                                    *)
Payload(s, t) == [samples |-> s, tail |-> t]
Result(f, n, d, b) == [format |-> f, num |-> n, den |-> d, nbytes |-> b]
NoGain == [num |-> 0, den |-> 0]

(* return audio_chunk: the payload as it came *)
Original(payload) ==
  Result("int16", payload.samples, 1, 2 * Len(payload.samples) + payload.tail)

EnhanceNotCalled ==
  /\ enh_called = FALSE
  /\ enh_payload = Payload(<<>>, 0)
  /\ enh_gain = NoGain
  /\ enh_out = Original(Payload(<<>>, 0))

(* active_sessions = {} and a free session_lock; no request is running and *)
(* no browser channel has sent a command.                                  *)
Threads == 1..MaxThreads
NoProxy == 0
EmptyDict == [k \in {} |-> NoProxy]
InitRegistry ==
  /\ session_lock = Nil
  /\ active_sessions = EmptyDict
  /\ proxy_session_id = <<>>
  /\ proxy_state = <<>>
  /\ rq_pc = [t \in Threads |-> "idle"]
  /\ rq_sid = [t \in Threads |-> Nil]
  /\ rq_ret = [t \in Threads |-> "none"]
  /\ ncmd = 0
  /\ last_cmd = "none"
  /\ stop_pc = "idle"
  /\ b2_pc = "none"

(***************************************************************************)
(* TokenManager.  A token record is the dict self.tokens: a field that is  *)
(* missing (dict.get gives None) is NoToken.  The Auth Service is the      *)
(* environment: each call to it ends in one of the outcomes                *)
(* _make_auth_request can produce, and a successful signup or refresh      *)
(* issues a record with a new id token.                                    *)
(***************************************************************************)
NoToken == 0
TokenRecord(i, r, u) == [id_token |-> i, refresh_token |-> r, user_id |-> u]
EmptyTokens == TokenRecord(NoToken, NoToken, NoToken)

(* What the Auth Service can answer to one request: no answer, an HTTP     *)
(* error status, or a 200 whose body carries an error message or none.     *)
AuthReplies == {"unreachable", "http_error", "INVALID_ID_TOKEN",
                "INVALID_REFRESH_TOKEN", "OTHER_ERROR", "success"}

(* _make_auth_request and _handle_api_error: how a call to the Auth        *)
(* Service ends for its caller.                                            *)
MakeAuthRequest(reply) ==
  IF reply \in {"unreachable", "http_error"} THEN "NetworkError"
  ELSE IF reply \in {"INVALID_ID_TOKEN", "INVALID_REFRESH_TOKEN"} THEN "InvalidToken"
  ELSE IF reply = "OTHER_ERROR" THEN "APIError"
  ELSE "ok"
SaveOutcomes == {"ok", "failed", "truncated"}

Returned(t) == [kind |-> "ok", token |-> t]
Raised(k) == [kind |-> k, token |-> NoToken]
NoResult == [kind |-> "none", token |-> NoToken]

Call(op, o) == [op |-> op, outcome |-> o]

RECURSIVE CountCalls(_, _)
CountCalls(calls, op) ==
  IF calls = <<>> THEN 0
  ELSE (IF Head(calls).op = op THEN 1 ELSE 0) + CountCalls(Tail(calls), op)

(* The record a successful signup returns: a new anonymous account. *)
SignupResponses == {TokenRecord(issued + 1, issued + 1, issued + 1)}

(* The records a successful refresh of the cached record may return. *)
RefreshResponses(cache) ==
  {TokenRecord(issued + 1, r, u) :
     r \in {cache.refresh_token, issued + 1}, u \in {cache.user_id, issued + 1}}

(* force_new has no effect while an id token is cached. *)
FirstStep_CacheFirst(force_new, cache) ==
  IF cache.id_token # NoToken THEN "lookup" ELSE "mint"

(* get_valid_token up to its first collaborator call. *)
FirstStep(force_new, cache) ==
  IF force_new THEN "mint"
  ELSE IF cache.id_token # NoToken THEN "lookup"
  ELSE "mint"

(* A lookup that could not be made makes the call fail. *)
AfterLookup_RaiseOnError(o, cache) ==
  IF o = "ok" THEN [pc |-> "returned", result |-> Returned(cache.id_token)]
  ELSE IF o \in {"NetworkError", "APIError"}
  THEN [pc |-> "returned", result |-> Raised(o)]
  ELSE IF cache.refresh_token # NoToken
  THEN [pc |-> "refresh", result |-> NoResult]
  ELSE [pc |-> "returned", result |-> Raised("InvalidToken")]

(* An expired id token without a refresh token makes a new account. *)
AfterLookup_MintWithoutRefresh(o, cache) ==
  IF o = "ok" THEN [pc |-> "returned", result |-> Returned(cache.id_token)]
  ELSE IF o \in {"NetworkError", "APIError"}
  THEN [pc |-> "returned", result |-> Returned(cache.id_token)]
  ELSE IF cache.refresh_token # NoToken
  THEN [pc |-> "refresh", result |-> NoResult]
  ELSE [pc |-> "mint", result |-> NoResult]

(* _is_token_expired and what get_valid_token does with it: the next       *)
(* position and, when the call ends here, its result.                      *)
AfterLookup(o, cache) ==
  IF o = "ok" THEN [pc |-> "returned", result |-> Returned(cache.id_token)]
  ELSE IF o \in {"NetworkError", "APIError"}
  THEN [pc |-> "returned", result |-> Returned(cache.id_token)]
  ELSE IF cache.refresh_token # NoToken
  THEN [pc |-> "refresh", result |-> NoResult]
  ELSE [pc |-> "returned", result |-> Raised("InvalidToken")]

(* A refresh that replaces the id token only. *)
RefreshedTokens_IdOnly(resp) == [tokens EXCEPT !.id_token = resp.id_token]

(* self.tokens after a successful refresh *)
RefreshedTokens(resp) ==
  TokenRecord(resp.id_token, resp.refresh_token, resp.user_id)

(* A failed refresh that reaches the caller as it was raised. *)
RefreshFailure_Propagate(o) == Raised(o)

(* What get_valid_token raises when the refresh call raised o. *)
RefreshFailure(o) == Raised("InvalidToken")

(* A signup whose record is not put in the cache. *)
NewAccountTokens_NotCached(resp) == tokens

(* self.tokens after a successful signup *)
NewAccountTokens(resp) ==
  TokenRecord(resp.id_token, resp.refresh_token, resp.user_id)

(* _save_tokens: the token file afterwards.  A failure before the file is  *)
(* opened leaves it, one after it was opened for writing leaves it empty.  *)
SaveTokens(store, cache, o) ==
  IF o = "ok" THEN cache
  ELSE IF o = "truncated" THEN EmptyTokens
  ELSE store

(* A failed write of the token file reaches the caller. *)
AfterSave_Propagate(so, id) ==
  IF so = "ok" THEN Returned(id) ELSE Raised("IOError")

(* What the caller gets once _save_tokens is through: its handler logs     *)
(* every exception and raises none.                                        *)
AfterSave(so, id) == Returned(id)

(* No call to get_valid_token has been made. *)
TokenIdle ==
  /\ tm_pc = "idle"
  /\ tm_force = FALSE
  /\ tm_result = NoResult
  /\ tm_calls = <<>>
  /\ tm_before = EmptyTokens
  /\ tm_response = EmptyTokens
  /\ issued = 1

(* TokenManager.__init__: the cache is what _load_tokens found. *)
InitToken ==
  /\ InitSession
  /\ tokens \in {TokenRecord(i, r, u) : i \in {NoToken, 1}, r \in {NoToken, 1},
                                         u \in {NoToken, 1}}
  /\ token_store = tokens
  /\ TokenIdle
  /\ InitForwarder
  /\ EnhanceNotCalled
  /\ InitRegistry
  /\ enh_numpy = TRUE

GetValidToken ==
  /\ tm_pc = "idle"
  /\ issued <= MaxIssued
  /\ \E force_new \in BOOLEAN :
       /\ tm_force' = force_new
       /\ tm_pc' = FirstStep(force_new, tokens)
  /\ tm_result' = NoResult
  /\ tm_calls' = <<>>
  /\ tm_before' = tokens
  /\ tm_response' = EmptyTokens
  /\ UNCHANGED <<offToken, tokens, token_store, issued>>

Lookup ==
  /\ tm_pc = "lookup"
  /\ \E reply \in AuthReplies : LET o == MakeAuthRequest(reply) IN
       /\ tm_calls' = Append(tm_calls, Call("lookup", o))
       /\ tm_pc' = AfterLookup(o, tokens).pc
       /\ tm_result' = AfterLookup(o, tokens).result
  /\ UNCHANGED <<offToken, tokens, token_store, tm_force, tm_before,
                 tm_response, issued>>

Refresh ==
  /\ tm_pc = "refresh"
  /\ tm_pc' = "returned"
  /\ \E reply \in AuthReplies : LET o == MakeAuthRequest(reply) IN
       IF o = "ok"
       THEN \E resp \in RefreshResponses(tokens), so \in SaveOutcomes :
              /\ tokens' = RefreshedTokens(resp)
              /\ token_store' = SaveTokens(token_store, tokens', so)
              /\ tm_calls' = tm_calls \o <<Call("refresh", o), Call("save", so)>>
              /\ tm_result' = AfterSave(so, resp.id_token)
              /\ tm_response' = resp
              /\ issued' = issued + 1
       ELSE /\ tm_calls' = Append(tm_calls, Call("refresh", o))
            /\ tm_result' = RefreshFailure(o)
            /\ UNCHANGED <<tokens, token_store, tm_response, issued>>
  /\ UNCHANGED <<offToken, tm_force, tm_before>>

(* _create_new_account *)
Mint ==
  /\ tm_pc = "mint"
  /\ tm_pc' = "returned"
  /\ \E reply \in AuthReplies : LET o == MakeAuthRequest(reply) IN
       IF o = "ok"
       THEN \E resp \in SignupResponses, so \in SaveOutcomes :
              /\ tokens' = NewAccountTokens(resp)
              /\ token_store' = SaveTokens(token_store, tokens', so)
              /\ tm_calls' = tm_calls \o <<Call("mint", o), Call("save", so)>>
              /\ tm_result' = AfterSave(so, resp.id_token)
              /\ tm_response' = resp
              /\ issued' = issued + 1
       ELSE /\ tm_calls' = Append(tm_calls, Call("mint", o))
            /\ tm_result' = Raised(o)
            /\ UNCHANGED <<tokens, token_store, tm_response, issued>>
  /\ UNCHANGED <<offToken, tm_force, tm_before>>

(* The caller has the result; the manager is ready for the next call. *)
Return ==
  /\ tm_pc = "returned"
  /\ tm_pc' = "idle"
  /\ UNCHANGED <<offToken, tokens, token_store, tm_force, tm_result, tm_calls,
                 tm_before, tm_response, issued>>

NextToken ==
  \/ GetValidToken
  \/ Lookup
  \/ Refresh
  \/ Mint
  \/ Return

SpecToken == InitToken /\ [][NextToken]_vars

(***************************************************************************)
(* VoiceChatProxy.process_ai_audio: the forwarding loop.  Times are in ms. *)
(* One step is one iteration that got a chunk: it records the gap since    *)
(* the chunk before, retunes the target and decides on the flush.          *)
(***************************************************************************)
(* The gaps between two chunks, and the durations of a chunk. *)
Gaps == {10, 20, 60}
ChunkDurations == {40}

RECURSIVE SumSeq(_)
SumSeq(q) == IF q = <<>> THEN 0 ELSE Head(q) + SumSeq(Tail(q))

MinOf(a, b) == IF a <= b THEN a ELSE b
MaxOf(a, b) == IF a >= b THEN a ELSE b

(* network_jitter.append(gap), then pop(0) while it is longer than the window *)
RecordGap(jit, gap) ==
  IF Len(jit) + 1 > JitterWindow THEN Tail(Append(jit, gap)) ELSE Append(jit, gap)

(* jitter_ms > 50 and jitter_ms < 20, for jitter_ms = sum / len *)
HighJitter_Inclusive(jit) == SumSeq(jit) >= HighJitterMs * Len(jit)
HighJitter(jit) == SumSeq(jit) > HighJitterMs * Len(jit)
LowJitter(jit) == SumSeq(jit) < LowJitterMs * Len(jit)

Grow_Uncapped(size) == size + GrowStepMs
Grow(size) == MinOf(MaxBufferMs, size + GrowStepMs)
Shrink(size) == MaxOf(MinBufferMs, size - ShrinkStepMs)

(* A retune that shrinks on low jitter whatever the target is. *)
Retune_ShrinkToFloor(jit, size) ==
  IF Len(jit) >= MinJitterSamples
  THEN IF HighJitter(jit) THEN Grow(size)
       ELSE IF LowJitter(jit) THEN Shrink(size)
       ELSE size
  ELSE size

(* The adaptive buffer sizing of one iteration. *)
Retune(jit, size) ==
  IF Len(jit) >= MinJitterSamples
  THEN IF HighJitter(jit) THEN Grow(size)
       ELSE IF LowJitter(jit) /\ size > ShrinkAboveMs THEN Shrink(size)
       ELSE size
  ELSE size

(* now - last_send_time, gap ms after the chunk before *)
Elapsed(since, gap) == IF since = NeverSent THEN NeverSent ELSE since + gap

(* The flush condition; the buffer holds at least the chunk just added. *)
FlushDue(buf, size, elapsed) ==
  \/ SumSeq(buf) >= size
  \/ elapsed = NeverSent
  \/ elapsed > FlushAfterMs

(***************************************************************************)
(* VoiceChatProxy.enhance_audio_quality, in exact integer arithmetic.  The *)
(* payloads of the model are shorter than FilterMinLen samples, the length *)
(* above which the code also subtracts a moving average.                   *)
(***************************************************************************)
Int16Min == -32768
Int16Max == 32767
FullScale == 32767
TargetPeakTenths == 9  \* the 0.9 of the scale
MaxGain == 2
FilterMinLen == 64

SampleValues == {Int16Min, -30000, 0, 100, 30000, Int16Max}
Payloads ==
  {Payload(s, t) : s \in UNION {[1..k -> SampleValues] : k \in 0..MaxSamples},
                   t \in {0, 1}}

(* np.abs on int16: the absolute value of -32768 does not fit and wraps. *)
AbsInt16(x) == IF x = Int16Min THEN Int16Min ELSE IF x < 0 THEN -x ELSE x

(* np.max(np.abs(audio_array)), for a payload that has a sample *)
MaxVal(s) ==
  CHOOSE v \in {AbsInt16(s[i]) : i \in 1..Len(s)} :
    \A i \in 1..Len(s) : AbsInt16(s[i]) <= v

(* min(32767 / max_val * 0.9, 2.0), as a fraction *)
Gain(peak) ==
  IF FullScale * TargetPeakTenths < MaxGain * 10 * peak
  THEN [num |-> FullScale * TargetPeakTenths, den |-> 10 * peak]
  ELSE [num |-> MaxGain, den |-> 1]

(* a * b = q * d + r with 0 <= r < d, for a, b >= 0 and d > 0, without a   *)
(* product that leaves 32 bits                                             *)
RECURSIVE MulDivMod(_, _, _)
MulDivMod(a, b, d) ==
  IF b = 0 THEN [q |-> 0, r |-> 0]
  ELSE LET h == MulDivMod(a, b \div 2, d)
           r2 == 2 * h.r + (IF b % 2 = 1 THEN a % d ELSE 0)
           q2 == 2 * h.q + (IF b % 2 = 1 THEN a \div d ELSE 0)
       IN [q |-> q2 + (r2 \div d), r |-> r2 % d]

(* audio_array * scale, then astype(np.int16): towards zero *)
Scaled(x, g) ==
  IF x >= 0 THEN MulDivMod(x, g.num, g.den).q ELSE -(MulDivMod(-x, g.num, g.den).q)

(* np.clip(..., -32768, 32767) *)
Clip(x) == IF x < Int16Min THEN Int16Min ELSE IF x > Int16Max THEN Int16Max ELSE x

(* The volume normalization: int16 samples again. *)
Normalize(s) ==
  IF MaxVal(s) > 0
  THEN [i \in 1..Len(s) |-> Clip(Scaled(s[i], Gain(MaxVal(s))))]
  ELSE s

(* audio_array - np.mean(audio_array): a float64 array, the values over    *)
(* the denominator Len(s)                                                  *)
RemoveDC(s) == [i \in 1..Len(s) |-> Len(s) * s[i] - SumSeq(s)]

(* The gain the call applies. *)
AppliedGain(payload, numpy) ==
  IF numpy /\ payload.tail = 0 /\ payload.samples # <<>> /\ MaxVal(payload.samples) > 0
  THEN Gain(MaxVal(payload.samples))
  ELSE NoGain

(* An enhancement that gives nothing back when a step of it fails. *)
Enhanced_DropOnFailure(payload, numpy) ==
  IF ~numpy THEN Original(payload)
  ELSE IF payload.tail # 0 \/ payload.samples = <<>> THEN Result("int16", <<>>, 1, 0)
  ELSE Result("float64", RemoveDC(Normalize(payload.samples)), Len(payload.samples),
              8 * Len(payload.samples))

(* What the call returns.  np.frombuffer raises on a payload that is not a *)
(* whole number of samples; audio_array.tobytes() gives the bytes of the   *)
(* array as it is then, float64 once the mean was subtracted.              *)
Enhanced(payload, numpy) ==
  IF ~numpy \/ payload.tail # 0 THEN Original(payload)
  ELSE IF payload.samples = <<>> THEN Result("int16", <<>>, 1, 0)
  ELSE Result("float64", RemoveDC(Normalize(payload.samples)), Len(payload.samples),
              8 * Len(payload.samples))

(* The build: numpy is installed or it is not. *)
InitEnhance ==
  /\ InitSession
  /\ tokens = EmptyTokens
  /\ token_store = EmptyTokens
  /\ TokenIdle
  /\ InitForwarder
  /\ EnhanceNotCalled
  /\ InitRegistry
  /\ enh_numpy \in BOOLEAN

EnhanceAudioQuality ==
  /\ ~enh_called
  /\ \E payload \in Payloads :
       /\ Len(payload.samples) <= FilterMinLen
       /\ enh_payload' = payload
       /\ enh_gain' = AppliedGain(payload, enh_numpy)
       /\ enh_out' = Enhanced(payload, enh_numpy)
  /\ enh_called' = TRUE
  /\ UNCHANGED <<offEnhance, enh_numpy>>

NextEnhance == EnhanceAudioQuality

SpecEnhance == InitEnhance /\ [][NextEnhance]_vars

(***************************************************************************)
(* The session (Spec): its token manager is left out of the picture.       *)
(***************************************************************************)
Init ==
  /\ InitSession
  /\ tokens = EmptyTokens
  /\ token_store = EmptyTokens
  /\ TokenIdle
  /\ InitForwarder
  /\ EnhanceNotCalled
  /\ InitRegistry
  /\ enh_numpy = TRUE

(* The bytes a flush joins (b''.join(audio_buffer)): whole samples, or     *)
(* with a byte left over.                                                  *)
FlushPayloads == {Payload(<<100, -30000>>, t) : t \in {0, 1}}

(* An iteration of the loop in which get_next_audio_chunk gave a chunk,    *)
(* gap ms after the chunk before; a flush gives the joined bytes to        *)
(* enhance_audio_quality and empties the buffer.  G is the gaps and P the  *)
(* joined bytes the iteration is followed for.                             *)
ForwardChunkOf(G, P) ==
  \E gap \in G, dur \in ChunkDurations :
    LET jit == IF chunk_seen THEN RecordGap(network_jitter, gap) ELSE network_jitter
        size == Retune(jit, buffer_size_ms)
        buf == Append(fw_buffer, dur)
        elapsed == IF chunk_seen THEN Elapsed(since_send, gap) ELSE since_send
    IN /\ gap >= waited
       /\ waited' = 0
       /\ chunk_seen' = TRUE
       /\ network_jitter' = jit
       /\ buffer_size_ms' = size
       /\ IF FlushDue(buf, size, elapsed)
            THEN /\ flushed' = buf
                 /\ \E payload \in P :
                      /\ enh_called' = TRUE
                      /\ enh_payload' = payload
                      /\ enh_gain' = AppliedGain(payload, enh_numpy)
                      /\ enh_out' = Enhanced(payload, enh_numpy)
                 /\ fw_buffer' = <<>>
                 /\ since_send' = 0
            ELSE /\ flushed' = <<>>
                 /\ fw_buffer' = buf
                 /\ since_send' = elapsed
                 /\ UNCHANGED <<enh_called, enh_payload, enh_gain, enh_out>>
       /\ UNCHANGED <<sessionVars, tokenVars, registryVars, commandVars, stopVars,
                      channelVars,
                      enh_numpy>>

(* Chunks of whole samples, at any of the gaps. *)
ForwardChunk == ForwardChunkOf(Gaps, {Payload(<<100, -30000>>, 0)})

NextForwarder == ForwardChunk

SpecForwarder == Init /\ [][NextForwarder]_vars

(* An iteration in which get_next_audio_chunk timed out: audio_chunk is    *)
(* None and the body of the loop is skipped.                               *)
ForwardTimeout ==
  /\ waited < MaxIdleMs
  /\ waited' = waited + GetTimeoutMs
  /\ flushed' = <<>>
  /\ UNCHANGED <<offForwarder, buffer_size_ms, network_jitter, chunk_seen, fw_buffer,
                 since_send>>

(* The loop under light traffic: chunks, and waits that time out. *)
NextFlush ==
  \/ ForwardChunk
  \/ ForwardTimeout

SpecFlush == Init /\ [][NextFlush]_vars

(* Chunks whose joined bytes may leave a byte over, at a short or a long   *)
(* gap.                                                                    *)
ForwardAnyPayload == ForwardChunkOf({20, 60}, FlushPayloads)

NextFlushEnhance == ForwardAnyPayload

SpecFlushEnhance == Init /\ [][NextFlushEnhance]_vars

(***************************************************************************)
(* The session registry: create_session, get_session and end_session, run  *)
(* by request threads.  A step taken under session_lock goes as far as the *)
(* next call of start() or stop(); what start() and stop() do to the proxy *)
(* is in Spec, here they take time and start() succeeds or fails.          *)
(***************************************************************************)
SessionIds == 1..MaxSessions

(* str(uuid.uuid4()), the n ids made so far being 1..n *)
NewSessionId(n) == n + 1

(* The proxy is stored under another key than its session id. *)
RegistryKey_Fixed(sid) == 1

(* active_sessions[session_id] = proxy: the key *)
RegistryKey(sid) == sid

(* d[k] = v, d.get(k) and d without k *)
DictSet(d, k, v) == [x \in DOMAIN d \cup {k} |-> IF x = k THEN v ELSE d[x]]
DictGet(d, k) == IF k \in DOMAIN d THEN d[k] ELSE NoProxy
DictDel(d, k) == [x \in DOMAIN d \ {k} |-> d[x]]

(* create_session up to proxy.start() *)
CreateSession(t) ==
  /\ rq_pc[t] = "idle"
  /\ session_lock = Nil
  /\ Len(proxy_session_id) < MaxSessions
  /\ LET sid == NewSessionId(Len(proxy_session_id))
         proxy == Len(proxy_session_id) + 1
     IN /\ session_lock' = t
        /\ proxy_session_id' = Append(proxy_session_id, sid)
        /\ proxy_state' = Append(proxy_state, "starting")
        /\ active_sessions' = DictSet(active_sessions, RegistryKey(sid), proxy)
        /\ rq_sid' = [rq_sid EXCEPT ![t] = sid]
  /\ rq_pc' = [rq_pc EXCEPT ![t] = "create_start"]
  /\ UNCHANGED <<offRegistry, rq_ret>>

(* A create_session that leaves the proxy registered when start() failed. *)
CreateSessionReturn_KeepsEntry(t) ==
  /\ rq_pc[t] = "create_start"
  /\ LET proxy == Len(proxy_state)
     IN \E started \in BOOLEAN :
          IF started
          THEN /\ proxy_state' = [proxy_state EXCEPT ![proxy] = "started"]
               /\ rq_ret' = [rq_ret EXCEPT ![t] = rq_sid[t]]
          ELSE /\ proxy_state' = [proxy_state EXCEPT ![proxy] = "failed"]
               /\ rq_ret' = [rq_ret EXCEPT ![t] = Nil]
  /\ session_lock' = Nil
  /\ rq_pc' = [rq_pc EXCEPT ![t] = "idle"]
  /\ UNCHANGED <<offRegistry, active_sessions, proxy_session_id, rq_sid>>

(* proxy.start() has returned: create_session from there to its end *)
CreateSessionReturn(t) ==
  /\ rq_pc[t] = "create_start"
  /\ LET proxy == Len(proxy_state)   \* the proxy this call made: it holds the lock
     IN \E started \in BOOLEAN :
          IF started
          THEN /\ proxy_state' = [proxy_state EXCEPT ![proxy] = "started"]
               /\ rq_ret' = [rq_ret EXCEPT ![t] = rq_sid[t]]
               /\ UNCHANGED active_sessions
          ELSE /\ proxy_state' = [proxy_state EXCEPT ![proxy] = "failed"]
               /\ rq_sid[t] \in DOMAIN active_sessions
               /\ active_sessions' = DictDel(active_sessions, rq_sid[t])
               /\ rq_ret' = [rq_ret EXCEPT ![t] = Nil]
  /\ session_lock' = Nil
  /\ rq_pc' = [rq_pc EXCEPT ![t] = "idle"]
  /\ UNCHANGED <<offRegistry, proxy_session_id, rq_sid>>

GetSession(t) ==
  /\ rq_pc[t] = "idle"
  /\ session_lock = Nil
  /\ \E sid \in SessionIds :
       /\ rq_sid' = [rq_sid EXCEPT ![t] = sid]
       /\ rq_ret' = [rq_ret EXCEPT ![t] = DictGet(active_sessions, sid)]
  /\ UNCHANGED <<offRegistry, session_lock, active_sessions, proxy_session_id,
                 proxy_state, rq_pc>>

(* end_session up to proxy.stop(), or to its end when there is no proxy *)
EndSessionCall(t) ==
  /\ rq_pc[t] = "idle"
  /\ session_lock = Nil
  /\ \E sid \in SessionIds :
       LET proxy == DictGet(active_sessions, sid)
       IN /\ rq_sid' = [rq_sid EXCEPT ![t] = sid]
          /\ IF proxy # NoProxy
               THEN /\ active_sessions' = DictDel(active_sessions, sid)
                    /\ session_lock' = t
                    /\ rq_pc' = [rq_pc EXCEPT ![t] = "end_stop"]
                    /\ proxy_state' =
                         [proxy_state EXCEPT ![proxy] =
                            IF @ = "started" THEN "stopping" ELSE @]
                    /\ UNCHANGED rq_ret
               ELSE /\ rq_ret' = [rq_ret EXCEPT ![t] = FALSE]
                    /\ UNCHANGED <<active_sessions, session_lock, rq_pc, proxy_state>>
  /\ UNCHANGED <<offRegistry, proxy_session_id>>

(* proxy.stop() has returned: end_session from there to its end *)
EndSessionReturn(t) ==
  /\ rq_pc[t] = "end_stop"
  /\ proxy_state' = [i \in DOMAIN proxy_state |->
                       IF proxy_session_id[i] = rq_sid[t] /\ proxy_state[i] = "stopping"
                       THEN "stopped" ELSE proxy_state[i]]
  /\ rq_ret' = [rq_ret EXCEPT ![t] = TRUE]
  /\ session_lock' = Nil
  /\ rq_pc' = [rq_pc EXCEPT ![t] = "idle"]
  /\ UNCHANGED <<offRegistry, active_sessions, proxy_session_id, rq_sid>>

(* on_ai_disconnect on the proxy's transport thread: stop(), no lock taken *)
ProxySelfStop ==
  /\ \E proxy \in DOMAIN proxy_state :
       /\ proxy_state[proxy] = "started"
       /\ proxy_state' = [proxy_state EXCEPT ![proxy] = "stopped"]
  /\ UNCHANGED <<offRegistry, session_lock, active_sessions, proxy_session_id,
                 rq_pc, rq_sid, rq_ret>>

NextRegistry ==
  \/ \E t \in Threads : CreateSession(t)
  \/ \E t \in Threads : CreateSessionReturn(t)
  \/ \E t \in Threads : GetSession(t)
  \/ \E t \in Threads : EndSessionCall(t)
  \/ \E t \in Threads : EndSessionReturn(t)
  \/ ProxySelfStop

SpecRegistry == Init /\ [][NextRegistry]_vars

(***************************************************************************)
(* VoiceChatProxy.stop, past its check of self.running, with the link in   *)
(* the state (w, s, c).                                                    *)
(***************************************************************************)
StopRunning(w, s, c) ==
  /\ running' = FALSE
  /\ Deliver(Disconnect(<<>>, w, s, c))
  /\ client_connected' = FALSE
  /\ status' = "Voice chat stopped"
  /\ connection_status' = "Disconnected"

(* A stop that does not look at the running flag. *)
Stop_Unguarded(w, s, c) == StopRunning(w, s, c)

(* stop(), called with the link in the state (w, s, c). *)
Stop(w, s, c) ==
  IF running
  THEN StopRunning(w, s, c)
  ELSE UNCHANGED <<running, sentVars, client_connected, status, connection_status>>

(* An on_ai_disconnect that leaves the proxy running. *)
OnAiDisconnect_NoStop(w, s, c) ==
  /\ disconnect_cb' = disconnect_cb + 1
  /\ browser_out' = SendStatus(<<>>, client_connected,
                               "Disconnected from character", "Disconnected")
  /\ status' = "Disconnected from character"
  /\ connection_status' = "Disconnected"
  /\ UNCHANGED <<running, sentVars, client_connected>>

(* on_ai_disconnect, invoked by the link in the state (w, s, c). *)
OnAiDisconnect(w, s, c) ==
  /\ disconnect_cb' = disconnect_cb + 1
  /\ browser_out' = SendStatus(<<>>, client_connected,
                               "Disconnected from character", "Disconnected")
  /\ IF running
       THEN StopRunning(w, s, c)
       ELSE /\ status' = "Disconnected from character"
            /\ connection_status' = "Disconnected"
            /\ UNCHANGED <<running, sentVars, client_connected>>

(* on_ai_connect, invoked when the link has stored the rate r. *)
OnAiConnect(r) ==
  /\ connect_cb' = connect_cb + 1
  /\ connection_status' = "Connected"
  /\ status' = "Connected to character"
  /\ p_sample_rate' = r
  /\ browser_out' = SendStatus(<<>>, client_connected,
                               "Connected to character", "Connected")

(***************************************************************************)
(* create_session -> start -> authenticate, connect_to_ai, ws.connect up   *)
(* to the wait on connected_event.  The outcome of authenticate is the     *)
(* token manager's (SpecToken).                                            *)
(***************************************************************************)
StartAuthFailed ==
  /\ p_pc = "idle"
  /\ p_pc' = "failed"
  /\ status' = "Authentication failed"
  /\ UNCHANGED <<offSession, linkVars, running, connection_status, p_sample_rate,
                 client_connected, audio_thread, registered, b_pc, sentVars,
                 browser_out, histVars>>

StartConnect ==
  /\ p_pc = "idle"
  /\ p_pc' = "waiting"
  /\ registered' = TRUE
  /\ running' = TRUE
  /\ status' = "Connecting to character"
  /\ connection_status' = "Connecting"
  /\ connected_event' = FALSE
  /\ ws_state' = "connecting"
  /\ UNCHANGED <<offSession, session_id, call_id, server_sample_rate, audio_buffer,
                 first_audio_received, recv_pc, cur_frame, p_sample_rate,
                 client_connected, audio_thread, b_pc, sentVars, browser_out,
                 histVars>>

(* A connect that does not wait for the connected event (blocking=False).  *)
ConnectOk_NonBlocking ==
  /\ p_pc = "waiting"
  /\ p_pc' = "started"
  /\ audio_thread' = "running"
  /\ UNCHANGED <<offSession, linkVars, running, status, connection_status, p_sample_rate,
                 client_connected, registered, b_pc, sentVars, browser_out,
                 histVars>>

(* connected_event.wait returned True: start_audio_thread, start returns True. *)
ConnectOk ==
  /\ p_pc = "waiting"
  /\ connected_event
  /\ p_pc' = "started"
  /\ audio_thread' = "running"
  /\ UNCHANGED <<offSession, linkVars, running, status, connection_status, p_sample_rate,
                 client_connected, registered, b_pc, sentVars, browser_out,
                 histVars>>

(* connected_event.wait timed out: ws.connect returns False. *)
ConnectTimeout ==
  /\ p_pc = "waiting"
  /\ ~connected_event
  /\ p_pc' = "timedout"
  /\ UNCHANGED <<offSession, linkVars, running, status, connection_status,
                 p_sample_rate, client_connected, audio_thread, registered, b_pc,
                 sentVars, browser_out, histVars>>

(* connect_to_ai reports the failure and returns False. *)
ConnectFailed ==
  /\ p_pc = "timedout"
  /\ p_pc' = "connfailed"
  /\ status' = "Failed to connect to SesameAI"
  /\ connection_status' = "Disconnected"
  /\ browser_out' = SendStatus(<<>>, client_connected,
                               "Failed to connect to SesameAI", "Disconnected")
  /\ UNCHANGED <<offSession, linkVars, running, p_sample_rate, client_connected,
                 audio_thread, registered, b_pc, sentVars, histVars>>

(* start clears the running flag and returns False; create_session drops   *)
(* the session.                                                            *)
StartFailed ==
  /\ p_pc = "connfailed"
  /\ p_pc' = "failed"
  /\ running' = FALSE
  /\ registered' = FALSE
  /\ UNCHANGED <<offSession, linkVars, status, connection_status, p_sample_rate,
                 client_connected, audio_thread, b_pc, sentVars, browser_out,
                 histVars>>

(* end_session: pop the proxy and stop it. *)
EndSession ==
  /\ p_pc = "started"
  /\ registered
  /\ registered' = FALSE
  /\ Stop(ws_state, session_id, call_id)
  /\ UNCHANGED <<offSession, linkVars, p_pc, p_sample_rate, audio_thread, b_pc, browser_out,
                 histVars>>

(***************************************************************************)
(* The transport thread (_connect_websocket, run_forever) and the          *)
(* callbacks it makes.  One message is handled at a time; _handle_audio    *)
(* is split at its queue operations, where the audio thread may run.       *)
(***************************************************************************)
WsOpen ==
  /\ ws_state = "connecting"
  /\ ws_state' = "open"
  /\ UNCHANGED <<offSession, session_id, call_id, server_sample_rate, connected_event,
                 audio_buffer, first_audio_received, recv_pc, cur_frame,
                 proxyVars, b_pc, sentVars, browser_out, histVars>>

OnError ==
  /\ ws_state \in {"connecting", "open"}
  /\ recv_pc = "idle"
  /\ ws_state' = "error"
  /\ connected_event' = FALSE
  /\ last_msg' = ErrorEvent
  /\ UNCHANGED <<offSession, session_id, call_id, server_sample_rate, audio_buffer,
                 first_audio_received, recv_pc, cur_frame, proxyVars, b_pc,
                 sentVars, browser_out, nrecv, nclient, nframes, consumed,
                 dropped, evicted, init_sids, connect_cb, disconnect_cb>>

OnClose ==
  /\ ws_state \in {"open", "error"}
  /\ recv_pc = "idle"
  /\ ws_state' = "closed"
  /\ connected_event' = FALSE
  /\ last_msg' = CloseEvent
  /\ OnAiDisconnect("closed", session_id, call_id)
  /\ UNCHANGED <<offSession, session_id, call_id, server_sample_rate, audio_buffer,
                 first_audio_received, recv_pc, cur_frame, p_pc, p_sample_rate,
                 audio_thread, registered, b_pc, nrecv, nclient, nframes,
                 consumed, dropped, evicted, init_sids, connect_cb>>

(* A handler that asks for the call before it reports the location. *)
HandleInitialize_ConnectFirst(m) ==
  /\ session_id' = m.session_id
  /\ Deliver(SendClientLocationState(
               SendCallConnect(<<>>, ws_state, m.session_id),
               ws_state, m.session_id))
  /\ init_sids' = init_sids \cup {m.session_id}
  /\ UNCHANGED <<offSession, ws_state, call_id, server_sample_rate, connected_event,
                 audio_buffer, first_audio_received, recv_pc, cur_frame,
                 proxyVars, b_pc, browser_out, nclient, nframes, consumed,
                 dropped, evicted, connect_cb, disconnect_cb>>

HandleInitialize(m) ==
  /\ session_id' = m.session_id
  /\ Deliver(SendCallConnect(
               SendClientLocationState(<<>>, ws_state, m.session_id),
               ws_state, m.session_id))
  /\ init_sids' = init_sids \cup {m.session_id}
  /\ UNCHANGED <<offSession, ws_state, call_id, server_sample_rate, connected_event,
                 audio_buffer, first_audio_received, recv_pc, cur_frame,
                 proxyVars, b_pc, browser_out, nclient, nframes, consumed,
                 dropped, evicted, connect_cb, disconnect_cb>>

HandleCallConnectResponse(m) ==
  /\ session_id' = m.session_id
  /\ call_id' = m.call_id
  /\ server_sample_rate' = DeclaredSampleRate(m, server_sample_rate)
  /\ connected_event' = TRUE
  /\ OnAiConnect(server_sample_rate')
  /\ UNCHANGED <<offSession, ws_state, audio_buffer, first_audio_received, recv_pc, cur_frame,
                 p_pc, running, client_connected, audio_thread, registered, b_pc,
                 sentVars, nclient, nframes, consumed, dropped, evicted,
                 init_sids, disconnect_cb>>

(* A handler that calls the callback with call_id still set. *)
HandleCallDisconnectResponse_KeepsCallId ==
  /\ call_id' = call_id
  /\ OnAiDisconnect(ws_state, session_id, call_id)
  /\ UNCHANGED <<offSession, ws_state, session_id, server_sample_rate, connected_event,
                 audio_buffer, first_audio_received, recv_pc, cur_frame, p_pc,
                 p_sample_rate, audio_thread, registered, b_pc, nclient, nframes,
                 consumed, dropped, evicted, init_sids, connect_cb>>

HandleCallDisconnectResponse ==
  /\ call_id' = Nil
  /\ OnAiDisconnect(ws_state, session_id, Nil)
  /\ UNCHANGED <<offSession, ws_state, session_id, server_sample_rate, connected_event,
                 audio_buffer, first_audio_received, recv_pc, cur_frame, p_pc,
                 p_sample_rate, audio_thread, registered, b_pc, nclient, nframes,
                 consumed, dropped, evicted, init_sids, connect_cb>>

(* A handler that takes a message it cannot use for a transport error. *)
HandleIgnored_AsError ==
  /\ connected_event' = FALSE
  /\ UNCHANGED <<offSession, ws_state, session_id, call_id, server_sample_rate,
                 audio_buffer, first_audio_received, recv_pc, cur_frame, proxyVars,
                 b_pc, sentVars, browser_out, nclient, nframes, consumed, dropped,
                 evicted, init_sids, connect_cb, disconnect_cb>>

(* ping_response, an unknown type, a non-JSON text, an audio message with  *)
(* no data or with data that does not decode.                              *)
HandleIgnored ==
  UNCHANGED <<offSession, linkVars, proxyVars, b_pc, sentVars, browser_out, nclient, nframes,
              consumed, dropped, evicted, init_sids, connect_cb, disconnect_cb>>

(* _handle_audio up to the first put_nowait; when it succeeds, to the end. *)
HandleAudio ==
  /\ nframes < MaxFrames
  /\ nframes' = nframes + 1
  /\ IF PutNowaitOk(audio_buffer)
       THEN /\ audio_buffer' = Append(audio_buffer, nframes + 1)
            /\ Deliver(Prime(<<>>, first_audio_received, ws_state, session_id,
                             call_id))
            /\ first_audio_received' = TRUE
            /\ UNCHANGED <<recv_pc, cur_frame>>
       ELSE /\ recv_pc' = "full"
            /\ cur_frame' = nframes + 1
            /\ UNCHANGED <<audio_buffer, sentVars, first_audio_received>>
  /\ UNCHANGED <<offSession, ws_state, session_id, call_id, server_sample_rate, connected_event,
                 proxyVars, b_pc, browser_out, nclient, consumed, dropped, evicted,
                 init_sids, connect_cb, disconnect_cb>>

(* _on_message for a message of the set M *)
RecvFrom(M) ==
  /\ ws_state = "open"
  /\ recv_pc = "idle"
  /\ \E m \in M :
       /\ nrecv' = nrecv + 1
       /\ last_msg' = m
       /\ CASE m.type = "initialize" -> HandleInitialize(m)
            [] m.type = "call_connect_response" -> HandleCallConnectResponse(m)
            [] m.type = "call_disconnect_response" -> HandleCallDisconnectResponse
            [] m.type = "audio" /\ m.data = "valid" -> HandleAudio
            [] OTHER -> HandleIgnored

Recv ==
  /\ nrecv < MaxMsgs
  /\ RecvFrom(BackendMsgs)

RecvInOrder == RecvFrom(InOrderMsgs)

(* queue.Full was raised: get_nowait, then (queue.Empty) give the frame up *)
(* or go on to the second put_nowait.                                      *)
AudioEvict ==
  /\ recv_pc = "full"
  /\ IF audio_buffer = <<>>
       THEN /\ dropped' = dropped \cup {cur_frame}
            /\ Deliver(Prime(<<>>, first_audio_received, ws_state, session_id,
                             call_id))
            /\ first_audio_received' = TRUE
            /\ recv_pc' = "idle"
            /\ UNCHANGED <<audio_buffer, evicted>>
       ELSE /\ evicted' = evicted \cup {GetNowait(audio_buffer).item}
            /\ audio_buffer' = GetNowait(audio_buffer).rest
            /\ recv_pc' = "evicted"
            /\ UNCHANGED <<dropped, sentVars, first_audio_received>>
  /\ UNCHANGED <<offSession, ws_state, session_id, call_id, server_sample_rate, connected_event,
                 cur_frame, proxyVars, b_pc, browser_out, nrecv, nclient, nframes,
                 consumed, last_msg, init_sids, connect_cb, disconnect_cb>>

(* The second put_nowait; a queue.Full here leaves _handle_audio through   *)
(* its outer handler, before the priming.                                  *)
AudioReinsert ==
  /\ recv_pc = "evicted"
  /\ recv_pc' = "idle"
  /\ IF PutNowaitOk(audio_buffer)
       THEN /\ audio_buffer' = Append(audio_buffer, cur_frame)
            /\ Deliver(Prime(<<>>, first_audio_received, ws_state, session_id,
                             call_id))
            /\ first_audio_received' = TRUE
            /\ UNCHANGED dropped
       ELSE /\ dropped' = dropped \cup {cur_frame}
            /\ UNCHANGED <<audio_buffer, sentVars, first_audio_received>>
  /\ UNCHANGED <<offSession, ws_state, session_id, call_id, server_sample_rate, connected_event,
                 cur_frame, proxyVars, b_pc, browser_out, nrecv, nclient, nframes,
                 consumed, evicted, last_msg, init_sids, connect_cb, disconnect_cb>>

(***************************************************************************)
(* The audio thread (process_ai_audio): it takes frames with               *)
(* get_next_audio_chunk while the proxy is running.                        *)
(***************************************************************************)
GetNextAudioChunk ==
  /\ audio_thread = "running"
  /\ running
  /\ audio_buffer # <<>>
  /\ consumed' = Append(consumed, Head(audio_buffer))
  /\ audio_buffer' = Tail(audio_buffer)
  /\ UNCHANGED <<offSession, ws_state, session_id, call_id, server_sample_rate, connected_event,
                 first_audio_received, recv_pc, cur_frame, proxyVars, b_pc,
                 sentVars, browser_out, nrecv, nclient, nframes, dropped, evicted,
                 last_msg, init_sids, connect_cb, disconnect_cb>>

AudioThreadExit ==
  /\ audio_thread = "running"
  /\ ~running
  /\ audio_thread' = "exited"
  /\ UNCHANGED <<offSession, linkVars, p_pc, running, status, connection_status, p_sample_rate,
                 client_connected, registered, b_pc, sentVars, browser_out,
                 histVars>>

(***************************************************************************)
(* The browser channel (ws_chat).                                          *)
(***************************************************************************)
BrowserAttach ==
  /\ b_pc = "none"
  /\ registered
  /\ p_pc = "started"
  /\ b_pc' = "attached"
  /\ client_connected' = TRUE
  /\ browser_out' = SendStatus(SendStatus(<<>>, TRUE, status, connection_status),
                               TRUE, status, connection_status)
  /\ UNCHANGED <<offSession, linkVars, p_pc, running, status, connection_status, p_sample_rate,
                 audio_thread, registered, sentVars, histVars>>

(* an audio message from the browser: send_audio_to_ai *)
BrowserAudio ==
  /\ b_pc = "attached"
  /\ nclient < MaxClientAudio
  /\ nclient' = nclient + 1
  /\ Deliver(IF is_connected
             THEN SendAudioData(<<>>, ws_state, session_id, call_id)
             ELSE <<>>)
  /\ UNCHANGED <<offSession, linkVars, proxyVars, b_pc, browser_out, nrecv, nframes, consumed,
                 dropped, evicted, last_msg, init_sids, connect_cb, disconnect_cb>>

BrowserClose ==
  /\ b_pc = "attached"
  /\ b_pc' = "closed"
  /\ client_connected' = FALSE
  /\ UNCHANGED <<offSession, linkVars, p_pc, running, status, connection_status, p_sample_rate,
                 audio_thread, registered, sentVars, browser_out, histVars>>

(* A second browser opens /ws/<session_id> for the same session id: its    *)
(* ws_chat gets the same proxy from get_session and replaces browser_ws.   *)
SecondBrowserAttach ==
  /\ b2_pc = "none"
  /\ registered
  /\ p_pc = "started"
  /\ b2_pc' = "attached"
  /\ client_connected' = TRUE
  /\ browser_out' = SendStatus(SendStatus(<<>>, TRUE, status, connection_status),
                               TRUE, status, connection_status)
  /\ UNCHANGED <<tokenVars, forwarderVars, enhanceVars, registryVars, commandVars,
                 stopVars, linkVars, p_pc, running, status, connection_status,
                 p_sample_rate, audio_thread, registered, b_pc, sentVars, histVars>>

(* the second channel's receive raises: the finally of its ws_chat runs *)
SecondBrowserClose ==
  /\ b2_pc = "attached"
  /\ b2_pc' = "closed"
  /\ client_connected' = FALSE
  /\ UNCHANGED <<tokenVars, forwarderVars, enhanceVars, registryVars, commandVars,
                 stopVars, linkVars, p_pc, running, status, connection_status,
                 p_sample_rate, audio_thread, registered, b_pc, sentVars,
                 browser_out, histVars>>

(* What ws_chat sends to the browser for a command message: the status for *)
(* 'status', nothing for any other command.                                *)
CommandReply(command, cc, st, cs) ==
  IF command = "status" THEN SendStatus(<<>>, cc, st, cs) ELSE <<>>

ClientCommands == {"status", "reconnect"}

(* a command message from the browser *)
BrowserCommand ==
  /\ b_pc = "attached"
  /\ ncmd < MaxCommands
  /\ \E command \in ClientCommands :
       /\ ncmd' = ncmd + 1
       /\ last_cmd' = command
       /\ browser_out' = CommandReply(command, client_connected, status,
                                      connection_status)
  /\ UNCHANGED <<offCommand, linkVars, proxyVars, b_pc, sentVars, histVars>>

Next ==
  \/ StartAuthFailed
  \/ StartConnect
  \/ ConnectOk
  \/ ConnectTimeout
  \/ ConnectFailed
  \/ StartFailed
  \/ EndSession
  \/ WsOpen
  \/ OnError
  \/ OnClose
  \/ Recv
  \/ AudioEvict
  \/ AudioReinsert
  \/ GetNextAudioChunk
  \/ AudioThreadExit

Spec == Init /\ [][Next]_vars

(* The session with one browser channel attached to it. *)
NextClient ==
  \/ Next
  \/ BrowserAttach
  \/ BrowserAudio
  \/ BrowserClose

SpecClient == Init /\ [][NextClient]_vars

(* A backend that completes the handshake and then streams audio frames. *)
NextQueue ==
  \/ StartConnect
  \/ ConnectOk
  \/ WsOpen
  \/ RecvInOrder
  \/ AudioEvict
  \/ AudioReinsert
  \/ GetNextAudioChunk

SpecQueue == Init /\ [][NextQueue]_vars

(* A backend that sends no audio, and a browser channel on the session. *)
ControlMsgs == {m \in BackendMsgs : m.type # "audio"}

RecvControl ==
  /\ nrecv < MaxMsgs
  /\ RecvFrom(ControlMsgs)

NextStatus ==
  \/ StartConnect
  \/ ConnectOk
  \/ EndSession
  \/ WsOpen
  \/ OnError
  \/ OnClose
  \/ RecvControl
  \/ BrowserAttach
  \/ BrowserClose

SpecStatus == Init /\ [][NextStatus]_vars

(* The session with two browser channels opened for its one session id. *)
NextChannels ==
  \/ StartConnect
  \/ ConnectOk
  \/ WsOpen
  \/ OnClose
  \/ RecvInOrder
  \/ BrowserAttach
  \/ BrowserCommand
  \/ BrowserClose
  \/ SecondBrowserAttach
  \/ SecondBrowserClose

SpecChannels == Init /\ [][NextChannels]_vars

(* The session with a browser channel that sends commands. *)
NextCommand ==
  \/ StartConnect
  \/ ConnectOk
  \/ EndSession
  \/ WsOpen
  \/ OnClose
  \/ RecvInOrder
  \/ BrowserAttach
  \/ BrowserCommand
  \/ BrowserClose

SpecCommand == Init /\ [][NextCommand]_vars

(***************************************************************************)
(* end_session on a request thread, step by step: the transport thread     *)
(* may run its callbacks between two steps of stop().                      *)
(***************************************************************************)
(* active_sessions.pop, and stop() up to its check of self.running *)
EndSessionPop ==
  /\ p_pc = "started"
  /\ registered
  /\ stop_pc = "idle"
  /\ registered' = FALSE
  /\ stop_pc' = IF running THEN "clear" ELSE "done"
  /\ UNCHANGED <<tokenVars, forwarderVars, enhanceVars, registryVars, commandVars,
                 channelVars,
                 linkVars, p_pc, running, status, connection_status, p_sample_rate,
                 client_connected, audio_thread, b_pc, sentVars, browser_out,
                 histVars>>

(* stop() past the check: self.running = False; self.ws.is_connected();    *)
(* self.ws.disconnect(); the three assignments at its end.                 *)
RequestStop ==
  /\ \/ /\ stop_pc = "clear"
        /\ running' = FALSE
        /\ stop_pc' = "check"
        /\ UNCHANGED <<sentVars, client_connected, status, connection_status>>
     \/ /\ stop_pc = "check"
        /\ stop_pc' = IF is_connected THEN "disconnect" ELSE "tail"
        /\ UNCHANGED <<running, sentVars, client_connected, status, connection_status>>
     \/ /\ stop_pc = "disconnect"
        /\ Deliver(Disconnect(<<>>, ws_state, session_id, call_id))
        /\ stop_pc' = "tail"
        /\ UNCHANGED <<running, client_connected, status, connection_status>>
     \/ /\ stop_pc = "tail"
        /\ client_connected' = FALSE
        /\ status' = "Voice chat stopped"
        /\ connection_status' = "Disconnected"
        /\ stop_pc' = "done"
        /\ UNCHANGED <<running, sentVars>>
  /\ UNCHANGED <<tokenVars, forwarderVars, enhanceVars, registryVars, commandVars,
                 channelVars,
                 linkVars, p_pc, p_sample_rate, audio_thread, registered, b_pc,
                 browser_out, histVars>>

(* A stop by end_session against the stops the backend's events cause. *)
NextStopRace ==
  \/ StartConnect
  \/ ConnectOk
  \/ WsOpen
  \/ RecvControl
  \/ OnClose
  \/ EndSessionPop
  \/ RequestStop

SpecStopRace == Init /\ [][NextStopRace]_vars

(* The link with its browser channel, and any backend. *)
NextAudioOut ==
  \/ StartConnect
  \/ ConnectOk
  \/ WsOpen
  \/ Recv
  \/ AudioEvict
  \/ AudioReinsert
  \/ BrowserAttach
  \/ BrowserAudio

SpecAudioOut == Init /\ [][NextAudioOut]_vars

(***************************************************************************)
(* Properties of the inbound queue (SpecQueue).                            *)
(***************************************************************************)
Range(q) == {q[i] : i \in 1..Len(q)}

(* The frames lo..hi in arrival order. *)
FramesFromTo(lo, hi) == [i \in 1..(hi - lo + 1) |-> lo + i - 1]

(* C1: with no consumer running, once Capacity + 1 (or more) frames have   *)
(* been received the queue holds exactly the Capacity most recent ones in  *)
(* arrival order; what get_next_audio_chunk returns afterwards, followed   *)
(* by what is still queued, is those frames in arrival order; and the      *)
(* handler is never blocked inside an insertion.                           *)
C1_DropOldestKeepsNewest ==
  /\ (audio_thread = "none" /\ recv_pc = "idle" /\ nframes >= Capacity + 1)
       => audio_buffer = FramesFromTo(nframes - Capacity + 1, nframes)
  /\ (nframes = Capacity + 1 /\ recv_pc = "idle" /\ 1 \notin Range(consumed))
       => consumed \o audio_buffer = FramesFromTo(2, Capacity + 1)
  /\ recv_pc = "full" => ENABLED AudioEvict
  /\ recv_pc = "evicted" => ENABLED AudioReinsert

(* Capacity + 1 frames were received with no consumer running, and the     *)
(* consumer then retrieved the Capacity most recent ones.                  *)
C1_Witness ==
  /\ nframes = Capacity + 1
  /\ recv_pc = "idle"
  /\ evicted = {1}
  /\ consumed = FramesFromTo(2, Capacity + 1)

(* C2: under every interleaving of the receive thread and the audio        *)
(* thread, every decoded frame is inserted into the queue: the new frame   *)
(* is never the one that is dropped.                                       *)
C2_NewestNeverDropped == dropped = {}

(***************************************************************************)
(* Properties of the link (Spec).                                          *)
(***************************************************************************)

(* C3: is_connected() is true exactly when session_id and call_id are both *)
(* set (its definition), and it is false in every state reached by a step  *)
(* that invoked the disconnect callback, from _on_close or from            *)
(* _handle_call_disconnect_response.                                       *)
C3_NotConnectedAfterDisconnectEvent ==
  [][/\ is_connected' <=> (session_id' # Nil /\ call_id' # Nil)
     /\ disconnect_cb' # disconnect_cb => ~is_connected']_vars

(* The step handled a call_connect_response that carries the session id of *)
(* an initialize message handled before it, and a sample rate.             *)
HandshakeCompleted ==
  /\ nrecv' = nrecv + 1
  /\ last_msg'.type = "call_connect_response"
  /\ last_msg'.session_id \in init_sids
  /\ last_msg'.sample_rate # NoRate

(* C4: after initialize{s} and then call_connect_response{s, c, rate r},   *)
(* is_connected() is true with the ids of the response, server_sample_rate *)
(* is r, connected_event is set and the connect callback was invoked.      *)
C4_HandshakeCompletes ==
  [][HandshakeCompleted =>
       /\ is_connected'
       /\ session_id' = last_msg'.session_id
       /\ call_id' = last_msg'.call_id
       /\ server_sample_rate' = last_msg'.sample_rate
       /\ connected_event'
       /\ connect_cb' = connect_cb + 1
       /\ p_sample_rate' = last_msg'.sample_rate]_vars

C4_Witness ==
  /\ last_msg.type = "call_connect_response"
  /\ last_msg.session_id \in init_sids
  /\ last_msg.sample_rate = ClientSampleRate
  /\ is_connected
  /\ server_sample_rate = ClientSampleRate
  /\ connected_event
  /\ connect_cb = 1

(* C5: once the handler has returned from the first inbound frame of the   *)
(* connection, exactly two priming messages have been sent to the backend, *)
(* and no later frame adds to them; before the first frame, none.          *)
C5_FirstFramePrimesTwice ==
  /\ nframes = 0 => sent_n["priming"] = 0
  /\ (nframes >= 1 /\ recv_pc = "idle") => sent_n["priming"] = 2


(***************************************************************************)
(* TokenManager.get_valid_token.  A call has ended when tm_pc is           *)
(* "returned": tm_force is its argument, tm_before the cache it found,     *)
(* tm_calls the collaborator calls it made, tm_response the record the     *)
(* Auth Service issued to it and tm_result what the caller gets.           *)
(***************************************************************************)
CallEnded == tm_pc = "returned"
CallsMade(op) == CountCalls(tm_calls, op)
Succeeded(op) == \E i \in 1..Len(tm_calls) : tm_calls[i] = Call(op, "ok")
CachedIs(resp) ==
  /\ tokens.id_token = resp.id_token
  /\ tokens.refresh_token = resp.refresh_token
  /\ tokens.user_id = resp.user_id

(* C6: get_valid_token(force_new=False) with no id token cached calls the  *)
(* create-anonymous-account operation exactly once, makes no lookup and no *)
(* refresh call, and, the signup having succeeded, has the minted record   *)
(* in the cache and returns the minted id token.                           *)
C6_NoCachedTokenMintsOnce ==
  (CallEnded /\ ~tm_force /\ tm_before.id_token = NoToken) =>
    /\ CallsMade("mint") = 1
    /\ CallsMade("lookup") = 0
    /\ CallsMade("refresh") = 0
    /\ Succeeded("mint") =>
         /\ tm_response.id_token # NoToken
         /\ CachedIs(tm_response)
         /\ tm_result = Returned(tm_response.id_token)

C6_Witness ==
  /\ CallEnded /\ ~tm_force /\ tm_before.id_token = NoToken
  /\ tm_before.refresh_token # NoToken
  /\ Succeeded("mint")
  /\ tm_result = Returned(tokens.id_token)
  /\ tokens # tm_before

(* C7: get_valid_token(force_new=False) with a cached id token that the    *)
(* lookup reports invalid and a cached refresh token calls refresh exactly *)
(* once and never mints; when the refresh succeeds, every field of the     *)
(* cached record is the refreshed record's and the new id token is         *)
(* returned.                                                               *)
C7_ExpiredTokenRefreshedOnce ==
  (/\ CallEnded /\ ~tm_force
   /\ tm_before.id_token # NoToken /\ tm_before.refresh_token # NoToken
   /\ tm_calls # <<>> /\ tm_calls[1] = Call("lookup", "InvalidToken")) =>
    /\ CallsMade("refresh") = 1
    /\ CallsMade("mint") = 0
    /\ CallsMade("lookup") = 1
    /\ Succeeded("refresh") =>
         /\ tm_response.id_token \notin {NoToken, tm_before.id_token}
         /\ CachedIs(tm_response)
         /\ tm_result = Returned(tm_response.id_token)

C7_Witness ==
  /\ CallEnded /\ ~tm_force
  /\ tm_calls # <<>> /\ tm_calls[1] = Call("lookup", "InvalidToken")
  /\ Succeeded("refresh")
  /\ tokens.id_token # tm_before.id_token
  /\ tokens.refresh_token # tm_before.refresh_token
  /\ tokens.user_id # tm_before.user_id
  /\ tm_result = Returned(tokens.id_token)

(* C8: when the refresh call made by get_valid_token fails, with an        *)
(* invalid refresh token, a network error or an API error, the call fails  *)
(* with InvalidToken and the cached record is the one it found.            *)
C8_RefreshFailureIsInvalidToken ==
  (CallEnded /\ CallsMade("refresh") >= 1 /\ ~Succeeded("refresh")) =>
    /\ tm_result = Raised("InvalidToken")
    /\ tokens = tm_before

C8_Witness ==
  /\ CallEnded
  /\ Len(tm_calls) = 2 /\ tm_calls[2] = Call("refresh", "NetworkError")
  /\ tm_result = Raised("InvalidToken")
  /\ tokens = tm_before
  /\ tokens.id_token # NoToken

(* C9: when the lookup itself fails with a network or an API error,        *)
(* get_valid_token(force_new=False) returns the cached id token, raises    *)
(* nothing, calls neither refresh nor mint and leaves the cache as it was. *)
C9_LookupErrorReturnsCached ==
  (/\ CallEnded /\ tm_calls # <<>>
   /\ tm_calls[1] \in {Call("lookup", "NetworkError"), Call("lookup", "APIError")}) =>
    /\ ~tm_force
    /\ tm_result = Returned(tm_before.id_token)
    /\ tm_before.id_token # NoToken
    /\ CallsMade("refresh") = 0
    /\ CallsMade("mint") = 0
    /\ tokens = tm_before

C9_Witness ==
  /\ CallEnded /\ ~tm_force
  /\ tm_calls = <<Call("lookup", "APIError")>>
  /\ tm_result = Returned(tokens.id_token)
  /\ tokens.id_token # NoToken
  /\ tokens.refresh_token # NoToken

(* C10: get_valid_token(force_new=True) calls the create-anonymous-account *)
(* operation once whatever the cache holds, makes no lookup and no refresh *)
(* call, and, the signup having succeeded, has replaced the cache with the *)
(* minted record and returns the minted id token.                          *)
C10_ForceNewAlwaysMints ==
  (CallEnded /\ tm_force) =>
    /\ CallsMade("mint") = 1
    /\ CallsMade("lookup") = 0
    /\ CallsMade("refresh") = 0
    /\ Succeeded("mint") =>
         /\ tm_response.id_token \notin {NoToken, tm_before.id_token}
         /\ CachedIs(tm_response)
         /\ tm_result = Returned(tm_response.id_token)

C10_Witness ==
  /\ CallEnded /\ tm_force
  /\ tm_before.id_token # NoToken /\ tm_before.refresh_token # NoToken
  /\ Succeeded("mint")
  /\ tokens.id_token # tm_before.id_token
  /\ tm_result = Returned(tokens.id_token)

(* C11: every successful mint and every successful refresh is followed by  *)
(* one write of the token record to the token file, which holds the whole  *)
(* new record when the write succeeds; when the write fails, the call      *)
(* still returns the new id token and the cache holds the new record.      *)
C11_SaveFailureNotPropagated ==
  (CallEnded /\ (Succeeded("mint") \/ Succeeded("refresh"))) =>
    /\ CallsMade("save") = 1
    /\ tm_calls[Len(tm_calls)].op = "save"
    /\ Succeeded("save") => token_store = tm_response
    /\ tm_result = Returned(tm_response.id_token)
    /\ tm_response.id_token # NoToken
    /\ CachedIs(tm_response)

C11_Witness ==
  /\ CallEnded /\ Succeeded("refresh")
  /\ tm_calls[Len(tm_calls)] = Call("save", "truncated")
  /\ token_store = EmptyTokens
  /\ tm_result = Returned(tokens.id_token)
  /\ tokens.id_token \notin {NoToken, tm_before.id_token}

(***************************************************************************)
(* VoiceChatProxy.  A step of a started proxy that takes running from TRUE *)
(* to FALSE is a stop() that found it running; end_session on a proxy that *)
(* is not running is a stop() that follows one.                            *)
(***************************************************************************)
FirstStop == p_pc = "started" /\ running /\ ~running'
SecondStop == p_pc = "started" /\ ~running /\ registered /\ ~registered'

(* C12: stop() is idempotent: the first call leaves the proxy not running  *)
(* with connection status Disconnected; a second call changes nothing of   *)
(* that, raises nothing and sends no message to the backend or the client. *)
C12_StopIdempotent ==
  [][/\ FirstStop => ~running' /\ connection_status' = "Disconnected"
     /\ SecondStop =>
          /\ ~running'
          /\ UNCHANGED <<status, connection_status, client_connected, sentVars,
                         browser_out, linkVars, p_pc>>]_vars

C12_Witness ==
  /\ p_pc = "started" /\ ~registered /\ ~running
  /\ disconnect_cb >= 1
  /\ status = "Voice chat stopped"
  /\ connection_status = "Disconnected"

(***************************************************************************)
(* The forwarding loop.  The averaged gap of a window q exceeds ms when    *)
(* its sum exceeds ms times its length.                                    *)
(***************************************************************************)
AvgAbove(q, ms) == SumSeq(q) > ms * Len(q)
AvgBelow(q, ms) == SumSeq(q) < ms * Len(q)

(* C13: in every state of the forwarding loop, whatever gaps were seen,    *)
(* the jitter-buffer target is at least 80 ms and at most 300 ms.          *)
C13_BufferTargetWithinBounds ==
  buffer_size_ms >= 80 /\ buffer_size_ms <= 300

C13_Witness ==
  /\ buffer_size_ms = 300
  /\ Len(network_jitter) = JitterWindow
  /\ AvgAbove(network_jitter, 50)

(* C14: the retune of an iteration that got a chunk, on the window with    *)
(* that chunk's gap in it.  With at least 5 gaps and an average above      *)
(* 50 ms the target strictly increases unless it is 300 ms already, and    *)
(* never passes 300 ms; with at least 5 gaps, an average below 20 ms and a *)
(* target above 100 ms it strictly decreases and stays at or above 80 ms;  *)
(* in every other case it is unchanged.                                    *)
C14_RetuneRule ==
  [][ForwardChunk =>
       LET jit == network_jitter'
           enough == Len(jit) >= 5
       IN IF enough /\ AvgAbove(jit, 50)
          THEN /\ buffer_size_ms < 300 => buffer_size_ms' > buffer_size_ms
               /\ buffer_size_ms = 300 => buffer_size_ms' = 300
               /\ buffer_size_ms' <= 300
          ELSE IF enough /\ AvgBelow(jit, 20) /\ buffer_size_ms > 100
          THEN buffer_size_ms' < buffer_size_ms /\ buffer_size_ms' >= 80
          ELSE buffer_size_ms' = buffer_size_ms]_vars

C14_Witness ==
  /\ buffer_size_ms = 100
  /\ Len(network_jitter) >= 5
  /\ AvgBelow(network_jitter, 20)

(***************************************************************************)
(* enhance_audio_quality.                                                  *)
(***************************************************************************)
Magnitude(x) == IF x < 0 THEN -x ELSE x
Peak(s) ==
  IF s = <<>> THEN 0
  ELSE CHOOSE v \in {Magnitude(s[i]) : i \in 1..Len(s)} :
         \A i \in 1..Len(s) : Magnitude(s[i]) <= v

(* C15: every sample value of the payload that enhance_audio_quality       *)
(* returns for forwarding, the DC-offset removal included, lies in         *)
(* [-32768, 32767].                                                        *)
C15_OutputWithinInt16 ==
  enh_called =>
    \A i \in 1..Len(enh_out.num) :
      /\ enh_out.num[i] >= -32768 * enh_out.den
      /\ enh_out.num[i] <= 32767 * enh_out.den

(* C16: for a payload of whole samples, normalized with numpy at hand: if  *)
(* its peak is nonzero, the gain applied is min(0.9 * 32767 / peak, 2.0),  *)
(* which is at most 2.0; if it is all zero, no gain is applied.            *)
C16_GainIsMinOfPeakRule ==
  (enh_called /\ enh_numpy /\ enh_payload.tail = 0) =>
    LET peak == Peak(enh_payload.samples)
    IN IF peak > 0
       THEN /\ enh_gain = (IF 9 * 32767 < 2 * 10 * peak
                             THEN [num |-> 9 * 32767, den |-> 10 * peak]
                             ELSE [num |-> 2, den |-> 1])
            /\ enh_gain.num <= 2 * enh_gain.den
       ELSE enh_gain = NoGain

(***************************************************************************)
(* VoiceChatProxy.start.                                                   *)
(***************************************************************************)
StartReturnsFalse == p_pc # "failed" /\ p_pc' = "failed"
FailureStatuses == {"Authentication failed", "Failed to connect to SesameAI"}

(* C19: when start() fails, at the authentication or at the connect step,  *)
(* it returns False with running false and a status that names the         *)
(* failure, and that call authenticates and connects at most once: a       *)
(* connect is only begun by a start() that has not failed, and a failed    *)
(* start() begins nothing more.                                            *)
C19_StartFailureLeavesStopped ==
  [][/\ StartReturnsFalse => ~running' /\ status' \in FailureStatuses
     /\ (p_pc # "waiting" /\ p_pc' = "waiting") => p_pc = "idle"
     /\ p_pc = "failed" => p_pc' = "failed"]_vars

(***************************************************************************)
(* The session registry.                                                   *)
(***************************************************************************)
InStartOrStop(proxy) == proxy_state[proxy] \in {"starting", "stopping"}

(* C17: session_lock is never held while a proxy's start() or stop() is    *)
(* executing.                                                              *)
C17_LockNotHeldDuringStartStop ==
  \A proxy \in DOMAIN proxy_state : InStartOrStop(proxy) => session_lock = Nil

(* C18: in every state, whatever create_session, get_session and           *)
(* end_session calls are under way, the registry holds a proxy under at    *)
(* most one id, and every proxy it holds is stored under that proxy's own  *)
(* session_id.                                                             *)
C18_OneProxyPerSessionId ==
  /\ \A k \in DOMAIN active_sessions :
       /\ active_sessions[k] \in DOMAIN proxy_session_id
       /\ proxy_session_id[active_sessions[k]] = k
  /\ \A j, k \in DOMAIN active_sessions :
       active_sessions[j] = active_sessions[k] => j = k

C18_Witness ==
  /\ Cardinality(DOMAIN active_sessions) = 2
  /\ \E t \in Threads : rq_pc[t] = "create_start"
  /\ \E proxy \in DOMAIN proxy_state : proxy_state[proxy] = "started"

(***************************************************************************)
(* VoiceChatProxy.on_ai_disconnect.                                        *)
(***************************************************************************)
DisconnectEvent == disconnect_cb' = disconnect_cb + 1
DisconnectedStatus == StatusMsg("Disconnected from character", "Disconnected")

(* C20: when the link fires its disconnect event while the proxy is        *)
(* running, the proxy sets its connection status to Disconnected, sends a  *)
(* status update to the client channel attached to it and stops itself;    *)
(* it begins no connect: the transport is not reopened and a proxy that    *)
(* has started never starts again.                                         *)
C20_BackendDisconnectStopsProxy ==
  [][/\ (DisconnectEvent /\ running) =>
          /\ connection_status' = "Disconnected"
          /\ client_connected => browser_out' = <<DisconnectedStatus>>
          /\ ~running'
          /\ ws_state' # "connecting"
          /\ p_pc' = p_pc
     /\ (p_pc = "started" /\ ~running) => (p_pc' = "started" /\ ~running')]_vars

C20_Witness ==
  /\ disconnect_cb = 1
  /\ b_pc = "attached"
  /\ browser_out = <<DisconnectedStatus>>
  /\ p_pc = "started" /\ ~running
  /\ connection_status = "Disconnected"
  /\ status = "Voice chat stopped"

(***************************************************************************)
(* The browser channel's commands (SpecCommand).                           *)
(***************************************************************************)
CommandHandled(command) == ncmd' = ncmd + 1 /\ last_cmd' = command

(* The reply that tells the browser what a reconnect command came to. *)
ReconnectResult(ok) == [type |-> "reconnect_result", success |-> ok]

(* C21: a reconnect requested of a proxy that is running closes the        *)
(* backend link and begins a new connect, or else reports the failure and  *)
(* leaves the connection status Disconnected; requested of a proxy that is *)
(* not running it is refused and the link is left as it is.                *)
C21_ReconnectReconnectsOrReportsFailure ==
  [][CommandHandled("reconnect") =>
       IF running
       THEN \/ ws_state' = "connecting" /\ connection_status' = "Connecting"
            \/ connection_status' = "Disconnected" /\ browser_out' # <<>>
       ELSE UNCHANGED <<ws_state, session_id, call_id, running>>]_vars

(* C22: every reconnect command on an attached channel is answered on it   *)
(* by exactly one reconnect_result message, and every status command by    *)
(* one status message that carries the current status.                     *)
C22_CommandsAreAnswered ==
  [][/\ CommandHandled("reconnect") =>
          \E ok \in BOOLEAN : browser_out' = <<ReconnectResult(ok)>>
     /\ CommandHandled("status") =>
          browser_out' = <<StatusMsg(status', connection_status')>>]_vars

(***************************************************************************)
(* SesameWebSocket.connect.                                                *)
(***************************************************************************)
ConnectReturnsTrue == p_pc = "waiting" /\ p_pc' = "started"
ConnectReturnsFalse == p_pc = "waiting" /\ p_pc' = "timedout"
TransportOpened == ws_state # "connecting" /\ ws_state' = "connecting"

(* C23: connect() returns true only when the connected event has fired,    *)
(* that is after a call_connect_response was processed, and false when     *)
(* the event is not set at the timeout; a transport is opened only by a    *)
(* call of connect(), one per call: the link never opens another one.      *)
C23_ConnectTrueOnlyAfterConnectedEvent ==
  [][/\ ConnectReturnsTrue => (connected_event /\ connect_cb > 0)
     /\ ConnectReturnsFalse => ~connected_event
     /\ TransportOpened => (p_pc = "idle" /\ p_pc' = "waiting" /\ ws_state = "none")]_vars

C23_Witness ==
  /\ p_pc = "started"
  /\ connected_event
  /\ connect_cb = 1
  /\ call_id # Nil
  /\ ws_state = "open"

(* C24: call_id is set only while the link is connected: it is nil in      *)
(* every state where the transport has closed or the connection status     *)
(* reported for the link is Disconnected or Connecting.                    *)
C24_CallIdOnlyWhileConnected ==
  (ws_state = "closed" \/ connection_status \in {"Disconnected", "Connecting"})
    => call_id = Nil

(***************************************************************************)
(* SesameWebSocket._handle_initialize.                                     *)
(***************************************************************************)
InitializeHandled == nrecv' = nrecv + 1 /\ last_msg'.type = "initialize"

(* C25: handling an initialize message (which carries a session id)        *)
(* records the session id and then sends one client_location_state and     *)
(* one call_connect, in that order and nothing else, both with the         *)
(* recorded session id; and call_connect is sent by no other step, so      *)
(* none is sent before an initialize message was received.                 *)
C25_InitializeSendsLocationThenCallConnect ==
  [][/\ InitializeHandled =>
          /\ session_id' = last_msg'.session_id
          /\ sent' = <<OutMsg("client_location_state", session_id', Nil, "none"),
                       OutMsg("call_connect", session_id', Nil, "none")>>
          /\ sent_n'["client_location_state"] = sent_n["client_location_state"] + 1
          /\ sent_n'["call_connect"] = sent_n["call_connect"] + 1
     /\ sent_n'["call_connect"] # sent_n["call_connect"] => InitializeHandled
     /\ sent_n["call_connect"] > 0 => init_sids # {}]_vars

C25_Witness ==
  /\ last_msg.type = "initialize"
  /\ session_id = 2
  /\ init_sids = {1, 2}
  /\ sent = <<OutMsg("client_location_state", 2, Nil, "none"),
              OutMsg("call_connect", 2, Nil, "none")>>
  /\ sent_n["call_connect"] = 2

(***************************************************************************)
(* Outbound audio (SpecAudioOut).                                          *)
(***************************************************************************)
AudioKinds == {"priming", "client"}
AudioSent == \E k \in AudioKinds : sent_n'[k] > sent_n[k]

SinceFlush == IF since_send = NeverSent THEN NeverSent ELSE since_send + waited

(* C27: a buffer that is not empty is flushed once more than 200 ms have   *)
(* passed since the last flush, also when no further chunk arrives: no     *)
(* iteration of the loop ends with a chunk in the buffer and more than     *)
(* 200 ms since the last flush.                                            *)
C27_IdleBufferIsFlushed ==
  [][SinceFlush' > FlushAfterMs => fw_buffer' = <<>>]_vars

(***************************************************************************)
(* Termination of a stopped session's threads.                             *)
(***************************************************************************)
Stopped == p_pc = "started" /\ ~running
(* A step the program takes by itself, with no event from the backend. *)
ProgramStep ==
  \/ ConnectOk
  \/ ConnectTimeout
  \/ ConnectFailed
  \/ StartFailed
  \/ AudioEvict
  \/ AudioReinsert
  \/ GetNextAudioChunk
  \/ AudioThreadExit
ForwardingTaskEnded == audio_thread = "exited"
ReceiveLoopEnded == ws_state = "closed"

(* C28: after stop() the forwarding task and the transport's receive loop  *)
(* both end without any further event from the backend: once the session   *)
(* is stopped and the program has no step of its own left to take, both    *)
(* have ended.                                                             *)
C28_StopEndsBothThreads ==
  (Stopped /\ ~ENABLED ProgramStep) => (ForwardingTaskEnded /\ ReceiveLoopEnded)

(* C29: the registry record of a session is gone once its proxy has        *)
(* stopped, whether end_session stopped it or it stopped by itself: for    *)
(* every proxy that was started and has stopped, get_session of its id     *)
(* returns nothing.                                                        *)
C29_StoppedProxyIsNotRegistered ==
  \A proxy \in DOMAIN proxy_state :
    proxy_state[proxy] = "stopped"
      => DictGet(active_sessions, proxy_session_id[proxy]) = NoProxy

(***************************************************************************)
(* SesameWebSocket.disconnect, as stop() calls it.                         *)
(***************************************************************************)
(* stop() ran past its check of the running flag; the link is then as the  *)
(* step leaves it.                                                         *)
StopRan == running /\ ~running' /\ p_pc' = p_pc
EndSessionRan == registered /\ ~registered' /\ p_pc = "started"

(* C30: disconnect() on a connected link sends exactly one call_disconnect *)
(* with the reason user_request and returns true, and it neither closes    *)
(* the transport nor changes session_id or call_id; on a link that is not  *)
(* connected it sends nothing and returns false.                           *)
C30_DisconnectSendsOneRequest ==
  [][/\ StopRan =>
          IF session_id' # Nil /\ call_id' # Nil
          THEN /\ sent' = <<OutMsg("call_disconnect", session_id', call_id',
                                   "user_request")>>
               /\ sent_n'["call_disconnect"] = sent_n["call_disconnect"] + 1
               /\ DisconnectReturns(session_id', call_id')
          ELSE /\ sent_n'["call_disconnect"] = sent_n["call_disconnect"]
               /\ ~DisconnectReturns(session_id', call_id')
     /\ EndSessionRan => UNCHANGED <<ws_state, session_id, call_id>>]_vars

(***************************************************************************)
(* SesameWebSocket._on_message: messages it does not know.                 *)
(***************************************************************************)
UnknownHandled == nrecv' = nrecv + 1 /\ last_msg'.type \in {"nonjson", "unknown"}

(* C31: a message that is not JSON, or whose type is none of the five the  *)
(* link knows, leaves session_id, call_id, the server sample rate, the     *)
(* inbound queue and the connected event as they were, sends nothing and   *)
(* calls no callback; the transport stays open and the receive thread is   *)
(* ready for the next message.                                             *)
C31_UnknownMessageIsIgnored ==
  [][UnknownHandled =>
       /\ UNCHANGED <<session_id, call_id, server_sample_rate, audio_buffer,
                      connected_event, first_audio_received>>
       /\ UNCHANGED <<sentVars, browser_out>>
       /\ UNCHANGED <<connect_cb, disconnect_cb, proxyVars>>
       /\ ws_state' = "open" /\ recv_pc' = "idle"]_vars

C31_Witness ==
  /\ last_msg.type = "nonjson"
  /\ nrecv = 3
  /\ is_connected
  /\ connected_event
  /\ ws_state = "open"

(***************************************************************************)
(* The flush and its enhancement (SpecFlushEnhance).                       *)
(***************************************************************************)
Flushed == flushed' # <<>>
NormalizationFailed == enh_numpy /\ enh_payload'.tail # 0

(* C32: when a step of the normalization fails (the joined bytes are not   *)
(* a whole number of samples), the flush hands on, for the client, the     *)
(* joined bytes as they were, every byte of them and in the int16 format,  *)
(* and the loop goes on with an empty buffer.                              *)
C32_FailedNormalizationForwardsOriginal ==
  [][(Flushed /\ NormalizationFailed) =>
       /\ enh_called'
       /\ enh_out'.format = "int16"
       /\ enh_out'.num = enh_payload'.samples /\ enh_out'.den = 1
       /\ enh_out'.nbytes = 2 * Len(enh_payload'.samples) + enh_payload'.tail
       /\ enh_gain' = NoGain
       /\ fw_buffer' = <<>>
       /\ since_send' = 0]_vars

C32_Witness ==
  /\ enh_called
  /\ enh_payload = Payload(<<100, -30000>>, 1)
  /\ enh_out.nbytes = 5
  /\ enh_out.num = <<100, -30000>>
  /\ flushed = <<40, 40, 40>>
  /\ fw_buffer = <<>>
  /\ Len(network_jitter) >= 2

(***************************************************************************)
(* A call_connect_response after the connect timeout.                      *)
(***************************************************************************)
StartTimedOut == p_pc = "failed" /\ ws_state # "none"
ConnectedStatusSent ==
  \E i \in 1..Len(browser_out') : browser_out'[i].connectionStatus = "Connected"

(* C33: once start() has returned false because the handshake did not      *)
(* complete before the connect timeout, the connection status of the proxy *)
(* is never Connected and no step sends a Connected status to a client,    *)
(* whatever arrives afterwards on the transport.                           *)
C33_NoConnectedAfterStartTimedOut ==
  [][StartTimedOut => (connection_status' # "Connected" /\ ~ConnectedStatusSent)]_vars

(***************************************************************************)
(* Two stops of one proxy (SpecStopRace).                                  *)
(***************************************************************************)
(* C34: however the stop() that end_session makes on a request thread and  *)
(* the stop() that on_ai_disconnect makes on the transport thread          *)
(* interleave, at most one call_disconnect is sent on the connection.      *)
C34_AtMostOneCallDisconnect == sent_n["call_disconnect"] <= 1

(* Both threads found the proxy running: end_session is past its check     *)
(* and the transport thread has stopped the proxy meanwhile.               *)
C34_Witness ==
  /\ stop_pc = "clear"
  /\ ~running
  /\ disconnect_cb = 1
  /\ is_connected
  /\ status = "Voice chat stopped"

(* C35: on one connection the link calls the disconnect callback at most   *)
(* once, whatever call_disconnect_response messages and transport close    *)
(* the backend produces.                                                   *)
C35_DisconnectCallbackAtMostOnce == disconnect_cb <= 1

(* C36: the payload a flush hands on for the client has as many bytes as   *)
(* the joined bytes it was made from, two per 16-bit sample, whether or    *)
(* not the normalization changed a sample.                                 *)
C36_EnhancedKeepsByteLength ==
  enh_called =>
    enh_out.nbytes = 2 * Len(enh_payload.samples) + enh_payload.tail

(* C37: while the receive loop of a client channel of the session is       *)
(* active, client_connected is true, also after a second channel attached  *)
(* to the same session id and one of the two closed.                       *)
C37_ActiveChannelMeansClientConnected ==
  (b_pc = "attached" \/ b2_pc = "attached") => client_connected

(* C38: get_valid_token(force_new=False) with a cached id token that the   *)
(* lookup reports invalid and no cached refresh token fails with           *)
(* InvalidToken, makes no refresh call and no mint call and leaves the     *)
(* cache as it found it; and no call with a cached id token and force_new  *)
(* false makes a mint call.                                                *)
C38_ExpiredWithoutRefreshTokenFails ==
  /\ (/\ CallEnded /\ ~tm_force
      /\ tm_before.id_token # NoToken /\ tm_before.refresh_token = NoToken
      /\ tm_calls # <<>> /\ tm_calls[1] = Call("lookup", "InvalidToken")) =>
       /\ tm_result = Raised("InvalidToken")
       /\ CallsMade("refresh") = 0
       /\ CallsMade("mint") = 0
       /\ tokens = tm_before
  /\ (~tm_force /\ tm_before.id_token # NoToken) =>
       (tm_pc # "mint" /\ CallsMade("mint") = 0)

C38_Witness ==
  /\ CallEnded /\ ~tm_force
  /\ tm_before.id_token # NoToken /\ tm_before.refresh_token = NoToken
  /\ tm_calls = <<Call("lookup", "InvalidToken")>>
  /\ tm_result = Raised("InvalidToken")
  /\ tokens = tm_before

(* C39: when the start() of create_session fails, create_session returns   *)
(* no session id and the registry has no entry for the id it allocated;    *)
(* so every proxy get_session can return, which it reads with the lock in  *)
(* hand, has had start() return true.                                      *)
StartFailedIn(t) ==
  /\ rq_pc[t] = "create_start"
  /\ rq_pc'[t] = "idle"
  /\ proxy_state'[Len(proxy_state)] = "failed"

C39_FailedStartLeavesNoEntry ==
  /\ [][\A t \in Threads :
          StartFailedIn(t) =>
            (rq_ret'[t] = Nil /\ rq_sid[t] \notin DOMAIN active_sessions')]_vars
  /\ [](\A proxy \in DOMAIN proxy_state :
          proxy_state[proxy] = "failed" =>
            proxy_session_id[proxy] \notin DOMAIN active_sessions)
  /\ [](session_lock = Nil =>
          \A k \in DOMAIN active_sessions :
            proxy_state[active_sessions[k]] \in {"started", "stopped"})

C39_Witness ==
  /\ session_lock = Nil
  /\ \E proxy \in DOMAIN proxy_state :
       /\ proxy_state[proxy] = "failed"
       /\ proxy_session_id[proxy] \notin DOMAIN active_sessions
  /\ \E k \in DOMAIN active_sessions : proxy_state[active_sessions[k]] = "started"

(* C40: from its initial 120 ms the jitter-buffer target only takes values *)
(* that are multiples of 10 ms from 100 ms to 300 ms: no retune brings it  *)
(* below 100 ms, and the floor of 80 ms is never reached.                  *)
C40_TargetIsTenMultipleFrom100To300 ==
  /\ buffer_size_ms % 10 = 0
  /\ buffer_size_ms >= 100
  /\ buffer_size_ms <= 300

C40_Witness ==
  /\ buffer_size_ms = 100
  /\ Len(network_jitter) = JitterWindow
  /\ LowJitter(network_jitter)
  /\ flushed # <<>>
====
